---- MODULE Spec2Model ----
(***************************************************************************)
(* A model of slack-edge's assistant support:                              *)
(*   - the Assistant class (four handler slots, their constructor-built    *)
(*     closures and the registration methods that replace them), and       *)
(*   - the DefaultAssistantThreadContextStore (context kept in the         *)
(*     metadata of the bot's first reply of a thread).                     *)
(* Spec      : the Assistant, driven by registrations and event deliveries *)
(* StoreSpec : the reference store, driven by save/find calls and by       *)
(*             messages being posted to the thread                         *)
(***************************************************************************)
EXTENDS Integers, Sequences, FiniteSets, TLC

\* ------------------------------------------------------------------ bounds
\* registration-method calls made on one Assistant
MaxRegistrations == 2
\* messages a thread can hold
MaxThreadLen == 5
\* messages a thread can hold while two callers use the store at once
MaxConcThreadLen == 2
\* messages a thread can hold while other writers update the anchor
MaxOobThreadLen == 2
\* entries the handler table can hold
MaxEntries == 3
\* redeliveries of one event
MaxRetryNum == 1

\* --------------------------------------------------------- program values
\* `limit: 4` of the conversations.replies call
RepliesLimit == 4
\* JavaScript's undefined (an absent option, field or return value)
Undefined == "undefined"
\* an option of AssistantOptions that was not supplied
NoHandler == 0
\* the function supplied through an option of AssistantOptions
OptionHandler == 1

Slots == {"threadStarted", "threadContextChanged", "userMessage", "botMessage"}

\* what a call of user code or of a context capability does
Outcomes        == {"ok", "throwError", "throwNullish"}
CapabilityOutcomes == {"ok", "throwError"}
NotCalled == "notcalled"

Subtypes   == {Undefined, "file_share", "bot_message", "message_changed"}
Users      == {"BOT1", "U2"}
BotUserIds == {"BOT1"}

\* AssistantThreadContext: enterprise_id is a string or null
ThreadContexts ==
  [enterprise_id : {"null", "E1"}, team_id : {"T1"}, channel_id : {"C1", "C2"}]
NoContext == [enterprise_id |-> "null", team_id |-> "T1", channel_id |-> "C1"]

VARIABLES
  \* ---- Assistant
  options,                      \* the AssistantOptions given to the constructor
  threadStartedHandler,         \* the four slot fields, each holding a closure
  threadContextChangedHandler,
  userMessageHandler,
  botMessageHandler,
  regCount,                     \* registration-method calls made so far
  registered,                   \* history: per slot, the handlers registered, oldest first
  last,                         \* observation: the most recent delivery and what it did
  \* ---- DefaultAssistantThreadContextStore and the remote thread
  msgs,                         \* the thread's messages, oldest first
  pc,                           \* per caller: where its save/find call stands
  arg,                          \* per caller: the newContext of its save call
  reply,                        \* per caller: the FirstReply its lookup returned
  ret,                          \* per caller: how its last call ended
  lastSaved,                    \* history: newContext and caller of the last applied update
  \* ---- the event predicates
  event,                        \* the event a predicate is applied to
  verdict,                      \* what isPostedMessageEvent / isFunctionExecutedEvent returned
  \* ---- request classification and dispatch
  registry,                     \* the handler table, in registration order
  dpc,                          \* where the request in flight stands
  request,                      \* the request in flight (or the last one served)
  ackDecision,                  \* the ack decision of that request
  lazyQueue,                    \* its lazy handlers still to run, in order
  dlog,                         \* observation: the handler runs of that request, in order
  prev                          \* history: the event and handler runs of the request before

assistantVars == <<options, threadStartedHandler, threadContextChangedHandler,
                   userMessageHandler, botMessageHandler, regCount, registered, last>>
storeVars == <<msgs, pc, arg, reply, ret, lastSaved>>
utilVars == <<event, verdict>>
dispatchVars == <<registry, dpc, request, ackDecision, lazyQueue, dlog, prev>>
otherVars == <<utilVars, dispatchVars>>
vars == <<assistantVars, storeVars, utilVars, dispatchVars>>

\* ============================================================ Assistant

\* a slot field holds either the closure built by the constructor (which reads
\* options.<slot> when it runs) or the closure built by the registration
\* method (which captured `handler`)
CtorClosure    == [kind |-> "ctor", handler |-> NoHandler]
RegClosure(h)  == [kind |-> "reg", handler |-> h]

\* what running a try-block did, and what it threw
EmptyEffects ==
  [invoked |-> <<>>, say |-> NotCalled, prompts |-> NotCalled, saved |-> <<>>,
   calls |-> <<>>, thrown |-> "none"]

ThrownBy(outcome) ==
  CASE outcome = "ok"           -> "none"
    [] outcome = "throwError"   -> "error"
    [] outcome = "throwNullish" -> "nullish"

\* await handler(req)
CallHandler(h, outcome) ==
  [EmptyEffects EXCEPT !.invoked = <<h>>, !.thrown = ThrownBy(outcome)]

\* isAssitantThreadEvent(req.body)
isAssitantThreadEvent(body) ==
  body.eventType \in {"assistant_thread_started", "assistant_thread_context_changed"}

\* the default of the constructor's threadStartedHandler: say, then setSuggestedPrompts
\* variant of DefaultThreadStarted: the prompts are set first, the greeting
\* is sent after them
Mut_DefaultThreadStarted(env) ==
  IF env.prompts # "ok"
    THEN [EmptyEffects EXCEPT !.prompts = env.prompts, !.thrown = ThrownBy(env.prompts),
                              !.calls = <<"setSuggestedPrompts">>]
    ELSE [EmptyEffects EXCEPT !.prompts = "ok", !.say = env.say,
                              !.thrown = ThrownBy(env.say),
                              !.calls = <<"setSuggestedPrompts", "say">>]

DefaultThreadStarted(env) ==
  IF env.say # "ok"
    THEN [EmptyEffects EXCEPT !.say = env.say, !.thrown = ThrownBy(env.say),
                              !.calls = <<"say">>]
    ELSE [EmptyEffects EXCEPT !.say = "ok", !.prompts = env.prompts,
                              !.thrown = ThrownBy(env.prompts),
                              !.calls = <<"say", "setSuggestedPrompts">>]

\* variant of SpreadContext: the copy loses the enterprise id
Mut_SpreadContext(c) ==
  [enterprise_id |-> "null", team_id |-> c.team_id, channel_id |-> c.channel_id]

\* { ...request.payload.assistant_thread.context }
SpreadContext(c) ==
  [enterprise_id |-> c.enterprise_id, team_id |-> c.team_id, channel_id |-> c.channel_id]

\* the default of the constructor's threadContextChangedHandler
DefaultThreadContextChanged(req, env) ==
  [EmptyEffects EXCEPT !.saved = <<SpreadContext(req.threadContext)>>,
                       !.calls = <<"saveThreadContextStore">>,
                       !.thrown = ThrownBy(env.save)]

\* catch (e: unknown) { console.error(`... ${(e as Error).stack}`) }
\* reading .stack of null or undefined throws inside the catch block
Catch(eff) ==
  [invoked |-> eff.invoked, say |-> eff.say, prompts |-> eff.prompts,
   saved |-> eff.saved, calls |-> eff.calls,
   logged   |-> (eff.thrown = "error"),
   rejected |-> (eff.thrown = "nullish"),
   ran |-> TRUE]

NotRun ==
  [invoked |-> <<>>, say |-> NotCalled, prompts |-> NotCalled, saved |-> <<>>,
   calls |-> <<>>,
   logged |-> FALSE, rejected |-> FALSE, ran |-> FALSE]

\* variant of UserMessageGuard: the messages of the bot itself are left out
Mut_UserMessageGuard(req) ==
  (req.subtype = Undefined \/ req.subtype = "file_share") /\ req.user # req.botUserId

\* req.payload.subtype === undefined || req.payload.subtype === "file_share"
UserMessageGuard(req) ==
  req.subtype = Undefined \/ req.subtype = "file_share"

\* variant of BotMessageGuard: the subtype is not looked at
Mut_BotMessageGuardAnySubtype(req) ==
  req.user = req.botUserId

\* variant of BotMessageGuard: the author is not compared
Mut_BotMessageGuard(req) ==
  req.subtype = Undefined

\* req.payload.subtype === undefined && req.payload.user === req.context.botUserId
BotMessageGuard(req) ==
  req.subtype = Undefined /\ req.user = req.botUserId

\* reading a property of an undefined req.payload throws a TypeError
GuardThrows(req) == ~req.payloadDefined
TypeErrorThrown == [EmptyEffects EXCEPT !.thrown = "error"]

\* variant of CtorThreadStarted: the default is not in an else branch, it runs
\* after the handler of the options too
Mut_CtorThreadStarted(opts, req, env) ==
  Catch(IF isAssitantThreadEvent(req.body)
          THEN IF opts.threadStarted # NoHandler /\ env.handler = "ok"
                 THEN [DefaultThreadStarted(env) EXCEPT !.invoked = <<opts.threadStarted>>]
                 ELSE IF opts.threadStarted # NoHandler
                   THEN CallHandler(opts.threadStarted, env.handler)
                   ELSE DefaultThreadStarted(env)
          ELSE EmptyEffects)

\* ---- the closures the constructor builds
CtorThreadStarted(opts, req, env) ==
  Catch(IF isAssitantThreadEvent(req.body)
          THEN IF opts.threadStarted # NoHandler
                 THEN CallHandler(opts.threadStarted, env.handler)
                 ELSE DefaultThreadStarted(env)
          ELSE EmptyEffects)

CtorThreadContextChanged(opts, req, env) ==
  Catch(IF isAssitantThreadEvent(req.body)
          THEN IF opts.threadContextChanged # NoHandler
                 THEN CallHandler(opts.threadContextChanged, env.handler)
                 ELSE DefaultThreadContextChanged(req, env)
          ELSE EmptyEffects)

CtorUserMessage(opts, req, env) ==
  Catch(IF GuardThrows(req) THEN TypeErrorThrown
        ELSE IF UserMessageGuard(req)
          THEN IF opts.userMessage # NoHandler
                 THEN CallHandler(opts.userMessage, env.handler)
                 ELSE EmptyEffects
          ELSE EmptyEffects)

CtorBotMessage(opts, req, env) ==
  Catch(IF GuardThrows(req) THEN TypeErrorThrown
        ELSE IF BotMessageGuard(req)
          THEN IF opts.botMessage # NoHandler
                 THEN CallHandler(opts.botMessage, env.handler)
                 ELSE EmptyEffects
          ELSE EmptyEffects)

\* ---- the closures the registration methods build
RegThreadStarted(h, req, env) ==
  Catch(IF isAssitantThreadEvent(req.body)
          THEN CallHandler(h, env.handler) ELSE EmptyEffects)

\* variant of RegThreadContextChanged: the body is not tested
Mut_RegThreadContextChanged(h, req, env) ==
  Catch(CallHandler(h, env.handler))

RegThreadContextChanged(h, req, env) ==
  Catch(IF isAssitantThreadEvent(req.body)
          THEN CallHandler(h, env.handler) ELSE EmptyEffects)

RegUserMessage(h, req, env) ==
  Catch(IF GuardThrows(req) THEN TypeErrorThrown
        ELSE IF UserMessageGuard(req)
          THEN CallHandler(h, env.handler) ELSE EmptyEffects)

RegBotMessage(h, req, env) ==
  Catch(IF GuardThrows(req) THEN TypeErrorThrown
        ELSE IF BotMessageGuard(req)
          THEN CallHandler(h, env.handler) ELSE EmptyEffects)

\* ---- calling whatever closure a slot field holds
RunThreadStarted(f, opts, req, env) ==
  IF f.kind = "ctor" THEN CtorThreadStarted(opts, req, env)
                     ELSE RegThreadStarted(f.handler, req, env)

RunThreadContextChanged(f, opts, req, env) ==
  IF f.kind = "ctor" THEN CtorThreadContextChanged(opts, req, env)
                     ELSE RegThreadContextChanged(f.handler, req, env)

RunUserMessage(f, opts, req, env) ==
  IF f.kind = "ctor" THEN CtorUserMessage(opts, req, env)
                     ELSE RegUserMessage(f.handler, req, env)

RunBotMessage(f, opts, req, env) ==
  IF f.kind = "ctor" THEN CtorBotMessage(opts, req, env)
                     ELSE RegBotMessage(f.handler, req, env)

\* ---- requests and environments
Request(et, pd, st, u, b, c) ==
  [body |-> [eventType |-> et], payloadDefined |-> pd, subtype |-> st, user |-> u,
   botUserId |-> b, threadContext |-> c]

NoRequest == Request("none", TRUE, Undefined, "U2", "BOT1", NoContext)

Env(h, s, p, sv) == [handler |-> h, say |-> s, prompts |-> p, save |-> sv]

AllNotRun == [s \in Slots |-> NotRun]

\* every registration call passes a function of its own
FreshHandler == OptionHandler + regCount + 1

Last(seq) == seq[Len(seq)]
\* the handler most recently registered for a slot (NoHandler when there is none)
current(s) == IF registered[s] = <<>> THEN NoHandler ELSE Last(registered[s])

\* ---- new Assistant(options)
AssistantInit ==
  /\ options \in [threadStarted : {NoHandler, OptionHandler},
                  threadContextChanged : {NoHandler, OptionHandler},
                  userMessage : {NoHandler, OptionHandler},
                  botMessage : {NoHandler, OptionHandler}]
  /\ threadStartedHandler = CtorClosure
  /\ threadContextChangedHandler = CtorClosure
  /\ userMessageHandler = CtorClosure
  /\ botMessageHandler = CtorClosure
  /\ regCount = 0
  /\ registered = [s \in Slots |->
                     IF options[s] = NoHandler THEN <<>> ELSE <<options[s]>>]
  /\ last = [kind |-> "none", req |-> NoRequest, res |-> AllNotRun]

Registered(s, h) ==
  /\ regCount' = regCount + 1
  /\ registered' = [registered EXCEPT ![s] = Append(@, h)]
  /\ last' = [kind |-> "none", req |-> NoRequest, res |-> AllNotRun]
  /\ UNCHANGED <<options, storeVars, otherVars>>

\* assistant.threadStarted(handler)
threadStarted ==
  /\ regCount < MaxRegistrations
  /\ threadStartedHandler' = RegClosure(FreshHandler)
  /\ Registered("threadStarted", FreshHandler)
  /\ UNCHANGED <<threadContextChangedHandler, userMessageHandler, botMessageHandler>>

\* assistant.threadContextChanged(handler)
threadContextChanged ==
  /\ regCount < MaxRegistrations
  /\ threadContextChangedHandler' = RegClosure(FreshHandler)
  /\ Registered("threadContextChanged", FreshHandler)
  /\ UNCHANGED <<threadStartedHandler, userMessageHandler, botMessageHandler>>

\* variant of userMessage: the new closure is stored in the botMessageHandler field
Mut_userMessage ==
  /\ regCount < MaxRegistrations
  /\ botMessageHandler' = RegClosure(FreshHandler)
  /\ Registered("userMessage", FreshHandler)
  /\ UNCHANGED <<threadStartedHandler, threadContextChangedHandler, userMessageHandler>>

\* assistant.userMessage(handler)
userMessage ==
  /\ regCount < MaxRegistrations
  /\ userMessageHandler' = RegClosure(FreshHandler)
  /\ Registered("userMessage", FreshHandler)
  /\ UNCHANGED <<threadStartedHandler, threadContextChangedHandler, botMessageHandler>>

\* assistant.botMessage(handler)
botMessage ==
  /\ regCount < MaxRegistrations
  /\ botMessageHandler' = RegClosure(FreshHandler)
  /\ Registered("botMessage", FreshHandler)
  /\ UNCHANGED <<threadStartedHandler, threadContextChangedHandler, userMessageHandler>>

Delivered(kind, req, res) ==
  /\ last' = [kind |-> kind, req |-> req, res |-> res]
  /\ UNCHANGED <<options, threadStartedHandler, threadContextChangedHandler,
                 userMessageHandler, botMessageHandler, regCount, registered, storeVars,
                 otherVars>>

\* an event is handed to the threadStartedHandler slot
DeliverThreadStarted ==
  \E et \in {"assistant_thread_started", "app_mention"},
     h \in Outcomes, s \in CapabilityOutcomes, p \in CapabilityOutcomes :
    \* one environment is enough for a body the slot does not act on
    /\ et = "app_mention" => (h = "ok" /\ s = "ok" /\ p = "ok")
    /\ LET req == Request(et, TRUE, Undefined, "U2", "BOT1", NoContext)
           env == Env(h, s, p, "ok")
       IN Delivered("threadStarted", req,
         [AllNotRun EXCEPT !["threadStarted"] =
            RunThreadStarted(threadStartedHandler, options, req, env)])

\* an event is handed to the threadContextChangedHandler slot
DeliverThreadContextChanged ==
  \E et \in {"assistant_thread_context_changed", "app_mention"},
     c \in ThreadContexts, h \in Outcomes, sv \in CapabilityOutcomes :
    /\ et = "app_mention" => (h = "ok" /\ sv = "ok")
    /\ LET req == Request(et, TRUE, Undefined, "U2", "BOT1", c)
           env == Env(h, "ok", "ok", sv)
       IN Delivered("threadContextChanged", req,
         [AllNotRun EXCEPT !["threadContextChanged"] =
            RunThreadContextChanged(threadContextChangedHandler, options, req, env)])

\* a message event reaches the Assistant: both message slots are event
\* handlers of the key "message", and each of them is run on the event
DeliverMessage ==
  \E pd \in BOOLEAN, st \in Subtypes, u \in Users, b \in BotUserIds,
     hu \in Outcomes, hb \in Outcomes :
    \* a request without payload: nothing else of it is read
    /\ ~pd => (st = Undefined /\ u = "U2" /\ hu = "ok" /\ hb = "ok")
    /\ LET req == Request("message", pd, st, u, b, NoContext)
       IN Delivered("message", req,
            [AllNotRun EXCEPT
               !["userMessage"] =
                  RunUserMessage(userMessageHandler, options, req, Env(hu, "ok", "ok", "ok")),
               !["botMessage"] =
                  RunBotMessage(botMessageHandler, options, req, Env(hb, "ok", "ok", "ok"))])

\* ============================= DefaultAssistantThreadContextStore
\* The store is constructed with the API client and thisBotUserId; it keeps no
\* other state. The remote thread of one AssistantThreadKey is `msgs`.

thisBotUserId == "BOT1"
Key == [channel_id |-> "D1", thread_ts |-> "1"]

\* the callers whose save/find calls may be in flight
Callers == {"p1", "p2"}

\* the contexts handed to save
StoreContexts ==
  {c \in ThreadContexts : (c.enterprise_id = "E1") <=> (c.channel_id = "C1")}

\* MessageMetadata | undefined
NoMetadata == [defined |-> FALSE, event_type |-> Undefined, event_payload |-> NoContext]
Metadata(et, payload) == [defined |-> TRUE, event_type |-> et, event_payload |-> payload]

\* AssistantThreadContext | undefined
Absent == [defined |-> FALSE, value |-> NoContext]
Present(c) == [defined |-> TRUE, value |-> c]

\* a message as it is posted to the thread: its author and its subtype
\* (Undefined: the message has no subtype field)
PostedKinds ==
  { <<"U2", Undefined>>, <<thisBotUserId, Undefined>>, <<thisBotUserId, "thread_broadcast">> }

Message(n, kind) ==
  [ts |-> n, user |-> kind[1], subtype |-> kind[2], text |-> "t0", blocks |-> "b0",
   metadata |-> NoMetadata]

Min(a, b) == IF a < b THEN a ELSE b

\* what client.conversations.replies({channel, ts, oldest, include_all_metadata, limit: 4})
\* answers: it throws, or a response without messages, or the oldest messages
\* of the thread up to the limit
FetchOutcomes == {"ok", "throws", "nomessages"}
RepliesResponse(outcome, thread) ==
  [threw |-> (outcome = "throws"),
   hasMessages |-> (outcome = "ok"),
   messages |-> IF outcome = "ok"
                  THEN SubSeq(thread, 1, Min(RepliesLimit, Len(thread)))
                  ELSE <<>>]

\* whether some of the messages was written by this bot
ByThisBot(messages) == \E i \in 1..Len(messages) : messages[i].user = thisBotUserId

\* FirstReply | undefined
NoReply ==
  [found |-> FALSE, channel_id |-> Undefined, ts |-> 0, text |-> Undefined,
   blocks |-> Undefined, metadata |-> NoMetadata]

\* variant of IsAssistantReply: the author is not compared
Mut_IsAssistantReply(message) ==
  message.subtype = Undefined

\* !("subtype" in message) && message.user === this.#thisBotUserId
IsAssistantReply(message) ==
  message.subtype = Undefined /\ message.user = thisBotUserId

\* variant of FirstMatch: the latest message that passes is taken
Mut_FirstMatch(messages) ==
  LET hits == {i \in 1..Len(messages) : IsAssistantReply(messages[i])}
  IN IF hits = {} THEN NoReply
     ELSE LET i == CHOOSE j \in hits : \A k \in hits : j >= k
              m == messages[i]
          IN [found |-> TRUE, channel_id |-> Key.channel_id, ts |-> m.ts,
              text |-> m.text, blocks |-> m.blocks, metadata |-> m.metadata]

\* for (const message of response.messages) { if (...) return {...} }
FirstMatch(messages) ==
  LET hits == {i \in 1..Len(messages) : IsAssistantReply(messages[i])}
  IN IF hits = {} THEN NoReply
     ELSE LET i == CHOOSE j \in hits : \A k \in hits : j <= k
              m == messages[i]
          IN [found |-> TRUE, channel_id |-> Key.channel_id, ts |-> m.ts,
              text |-> m.text, blocks |-> m.blocks, metadata |-> m.metadata]

\* #findFirstAssistantReply(key): a fetch that throws is caught and logged
findFirstAssistantReply(response) ==
  IF response.threw THEN NoReply
  ELSE IF response.hasMessages THEN FirstMatch(response.messages)
  ELSE NoReply

\* variant of SaveIssuesUpdate: the update is not guarded by `if (reply)`
Mut_SaveIssuesUpdate(r) == TRUE

\* save: if (reply) { await this.#client.chat.update(...) }
SaveIssuesUpdate(r) == r.found

\* { ...newContext }
CopyContext(c) ==
  [enterprise_id |-> c.enterprise_id, team_id |-> c.team_id, channel_id |-> c.channel_id]

\* variant of UpdateArgs: the event type the reply already carried is kept
Mut_UpdateArgsKeepType(r, newContext) ==
  [metadata |-> Metadata(IF r.metadata.defined THEN r.metadata.event_type
                                               ELSE "assistant_thread_context",
                         CopyContext(newContext))]
    @@ [channel |-> r.channel_id]
    @@ [channel_id |-> r.channel_id, ts |-> r.ts, text |-> r.text,
        blocks |-> r.blocks, metadata |-> r.metadata]

\* variant of UpdateArgs: the payload the reply already carried is kept
Mut_UpdateArgsKeepPayload(r, newContext) ==
  [metadata |-> Metadata("assistant_thread_context",
                         IF r.metadata.defined THEN r.metadata.event_payload
                                               ELSE newContext)]
    @@ [channel |-> r.channel_id]
    @@ [channel_id |-> r.channel_id, ts |-> r.ts, text |-> r.text,
        blocks |-> r.blocks, metadata |-> r.metadata]

\* variant of UpdateArgs: `...reply` is spread last, so that the metadata the
\* reply had overrides the new one
Mut_UpdateArgs(r, newContext) ==
  [channel_id |-> r.channel_id, ts |-> r.ts, text |-> r.text,
   blocks |-> r.blocks, metadata |-> r.metadata]
    @@ [channel |-> r.channel_id]
    @@ [metadata |-> Metadata("assistant_thread_context", newContext)]

\* { ...reply, channel: reply.channel_id, metadata: {...} }: a later entry of the
\* object literal overrides an earlier one of the same name
UpdateArgs(r, newContext) ==
  [metadata |-> Metadata("assistant_thread_context", CopyContext(newContext))]
    @@ [channel |-> r.channel_id]
    @@ [channel_id |-> r.channel_id, ts |-> r.ts, text |-> r.text,
        blocks |-> r.blocks, metadata |-> r.metadata]

\* variant of FindResult: the context written by the last save is kept and
\* returned
Mut_FindResultCached(r) ==
  IF lastSaved.defined THEN Present(lastSaved.value)
  ELSE IF r.found /\ r.metadata.defined THEN Present(r.metadata.event_payload)
  ELSE Absent

\* find: return reply.metadata?.event_payload
FindResult(r) ==
  IF r.found
    THEN IF r.metadata.defined THEN Present(r.metadata.event_payload) ELSE Absent
    ELSE Absent

\* chat.update at the remote side: the message of that channel and ts takes the
\* text, blocks and metadata of the call
UpdateTargets(thread, args) ==
  IF args.channel = Key.channel_id
    THEN {i \in 1..Len(thread) : thread[i].ts = args.ts}
    ELSE {}
ApplyUpdate(thread, args) ==
  [i \in 1..Len(thread) |->
     IF i \in UpdateTargets(thread, args)
       THEN [thread[i] EXCEPT !.text = args.text, !.blocks = args.blocks,
                              !.metadata = args.metadata]
       ELSE thread[i]]

\* how a call ended: what it was and returned, whether it raised, what its fetch
\* answered (and whether the answer held a message written by this bot), whether
\* chat.update was called, whether the thread changed, and the update that was
\* the last one applied when the call read the thread
NoCall ==
  [op |-> "none", raised |-> FALSE, value |-> Absent, fetch |-> "none",
   botAuthored |-> FALSE, found |-> FALSE, updateIssued |-> FALSE,
   remoteChanged |-> FALSE,
   seen |-> [defined |-> FALSE, value |-> NoContext, count |-> 0, by |-> "none"]]

StoreStart ==
  /\ msgs = <<>>
  /\ pc = [p \in Callers |-> "idle"]
  /\ arg = [p \in Callers |-> NoContext]
  /\ reply = [p \in Callers |-> NoReply]
  /\ ret = [p \in Callers |-> NoCall]
  /\ lastSaved = [defined |-> FALSE, value |-> NoContext, count |-> 0, by |-> "none"]

\* somebody (a user, or this bot) posts a message to the thread
PostMessage ==
  \E kind \in PostedKinds :
    /\ Len(msgs) < MaxThreadLen
    /\ msgs' = Append(msgs, Message(Len(msgs) + 1, kind))
    /\ UNCHANGED <<pc, arg, reply, ret, lastSaved, assistantVars, otherVars>>

\* store.save(key, newContext) up to the answer of its lookup: without a reply
\* the call is over
SaveLookup(p) ==
  \E c \in StoreContexts, fo \in FetchOutcomes :
    LET response == RepliesResponse(fo, msgs)
        r == findFirstAssistantReply(response)
        seenSoFar == [NoCall EXCEPT !.fetch = fo, !.found = r.found,
                                    !.botAuthored = ByThisBot(response.messages)]
    IN /\ pc[p] = "idle"
       /\ arg' = [arg EXCEPT ![p] = c]
       /\ reply' = [reply EXCEPT ![p] = r]
       /\ UNCHANGED <<msgs, lastSaved, assistantVars, otherVars>>
       /\ IF SaveIssuesUpdate(r)
            THEN /\ pc' = [pc EXCEPT ![p] = "save_update"]
                 /\ ret' = [ret EXCEPT ![p] = seenSoFar]
            ELSE /\ pc' = pc
                 /\ ret' = [ret EXCEPT ![p] =
                              [seenSoFar EXCEPT !.op = "save", !.seen = lastSaved,
                                                !.remoteChanged = (msgs' # msgs)]]

\* the chat.update call of save: applied, or it throws (nothing catches it)
SaveUpdate(p) ==
  \E uo \in {"ok", "throws"} :
    LET args == UpdateArgs(reply[p], arg[p])
        applied == uo = "ok" /\ UpdateTargets(msgs, args) # {}
    IN /\ pc[p] = "save_update"
       /\ msgs' = IF applied THEN ApplyUpdate(msgs, args) ELSE msgs
       /\ lastSaved' = IF applied
                         THEN [defined |-> TRUE, value |-> args.metadata.event_payload,
                               count |-> Min(lastSaved.count + 1, 2), by |-> p]
                         ELSE lastSaved
       /\ pc' = [pc EXCEPT ![p] = "idle"]
       /\ ret' = [ret EXCEPT ![p] =
                    [ret[p] EXCEPT !.op = "save", !.raised = ~applied, !.updateIssued = TRUE,
                                   !.remoteChanged = (msgs' # msgs), !.seen = lastSaved]]
       /\ UNCHANGED <<arg, reply, assistantVars, otherVars>>

\* store.find(key)
Find(p) ==
  \E fo \in FetchOutcomes :
    LET response == RepliesResponse(fo, msgs)
        r == findFirstAssistantReply(response)
    IN /\ pc[p] = "idle"
       /\ reply' = [reply EXCEPT ![p] = r]
       /\ ret' = [ret EXCEPT ![p] =
                    [NoCall EXCEPT !.op = "find", !.value = FindResult(r), !.fetch = fo,
                                   !.found = r.found, !.seen = lastSaved,
                                   !.botAuthored = ByThisBot(response.messages)]]
       /\ UNCHANGED <<msgs, pc, arg, lastSaved, assistantVars, otherVars>>

\* ---- the other writers of the thread (the bot's own code outside the store)
\* the first message of the fetch window that passes the store's test
AnchorIndexes ==
  LET hits == {i \in 1..Min(RepliesLimit, Len(msgs)) : IsAssistantReply(msgs[i])}
  IN  {i \in hits : \A k \in hits : i <= k}

\* the text or the blocks of that message are edited with chat.update
EditAnchor ==
  \E i \in AnchorIndexes, field \in {"text", "blocks"} :
    /\ IF field = "text"
         THEN msgs[i].text = "t0" /\ msgs' = [msgs EXCEPT ![i].text = "t1"]
         ELSE msgs[i].blocks = "b0" /\ msgs' = [msgs EXCEPT ![i].blocks = "b1"]
    /\ UNCHANGED <<pc, arg, reply, ret, lastSaved, assistantVars, otherVars>>

\* that message is given metadata outside the store: of an event type of the
\* bot's own (as when the bot posts its reply with metadata), or of the store's
OtherEventTypes == {"assistant_thread_context", "task_created"}
WriteAnchorMetadata ==
  \E i \in AnchorIndexes, et \in OtherEventTypes, c \in StoreContexts :
    /\ msgs[i].metadata # Metadata(et, c)
    /\ msgs' = [msgs EXCEPT ![i].metadata = Metadata(et, c)]
    /\ UNCHANGED <<pc, arg, reply, ret, lastSaved, assistantVars, otherVars>>

\* ======================================================= event predicates
EventTypeNames == {"message", "function_executed", "app_mention"}
EventSubtypes ==
  {Undefined, "bot_message", "file_share", "thread_broadcast", "message_changed",
   "message_deleted", "channel_join", "me_message", "zz_unknown"}
Events == [type : EventTypeNames, subtype : EventSubtypes, text : {"", "hi"}]
NoEvent == [type |-> "message", subtype |-> Undefined, text |-> ""]

\* variant of isPostedMessageEvent: thread broadcasts are left out
Mut_isPostedMessageEvent(e) ==
  e.subtype = Undefined \/ e.subtype = "bot_message" \/ e.subtype = "file_share"

\* event.subtype === undefined || event.subtype === "bot_message" ||
\* event.subtype === "file_share" || event.subtype === "thread_broadcast"
isPostedMessageEvent(e) ==
  \/ e.subtype = Undefined
  \/ e.subtype = "bot_message"
  \/ e.subtype = "file_share"
  \/ e.subtype = "thread_broadcast"

\* variant of isFunctionExecutedEvent: any event without subtype passes
Mut_isFunctionExecutedEvent(e) ==
  e.type = "function_executed" \/ e.subtype = Undefined

\* event.type === "function_executed"
isFunctionExecutedEvent(e) ==
  e.type = "function_executed"

NotApplied == [applied |-> FALSE, value |-> FALSE]
Returned(b) == [applied |-> TRUE, value |-> b]

UtilStart ==
  /\ event = NoEvent
  /\ verdict = [posted |-> NotApplied, functionExecuted |-> NotApplied]

\* a handler calls isPostedMessageEvent(event)
CallIsPostedMessageEvent ==
  /\ ~verdict.posted.applied
  /\ verdict' = [verdict EXCEPT !.posted = Returned(isPostedMessageEvent(event))]
  /\ UNCHANGED <<event, assistantVars, storeVars, dispatchVars>>

\* a handler calls isFunctionExecutedEvent(event)
CallIsFunctionExecutedEvent ==
  /\ ~verdict.functionExecuted.applied
  /\ verdict' = [verdict EXCEPT
                   !.functionExecuted = Returned(isFunctionExecutedEvent(event))]
  /\ UNCHANGED <<event, assistantVars, storeVars, dispatchVars>>

\* ========================================= classification and dispatch
\* the values of enum PayloadType
PayloadTypeValues ==
  {"block_actions", "block_suggestion", "message_action", "shortcut",
   "event_callback", "view_submission", "view_closed", "app_rate_limited"}
SlashCommandVariant == "slash_command"
Variants == PayloadTypeValues \cup {SlashCommandVariant}

\* SlackRequestBody, reduced to type?, command? and event?.type
Bodies ==
  [type : PayloadTypeValues \cup {Undefined, "zz_other"},
   command : {Undefined, "/todo"},
   event : {Undefined, "message"}]

\* variant of IsSlashCommand: the command field alone decides
Mut_IsSlashCommand(body) ==
  body.command # Undefined

\* a command field is present and no type field is present
IsSlashCommand(body) ==
  body.command # Undefined /\ body.type = Undefined

\* the discriminator of each variant
Discriminates(v, body) ==
  IF v = SlashCommandVariant THEN IsSlashCommand(body) ELSE body.type = v

VariantsOf(body) == {v \in Variants : Discriminates(v, body)}

\* the fields a variant cannot do without
RequiredPresent(v, body) ==
  v = "event_callback" => body.event # Undefined

Classified(v) == [ok |-> TRUE, variant |-> v, error |-> "none"]
ClassificationFailure(e) == [ok |-> FALSE, variant |-> "none", error |-> e]

\* classify(rawBody)
classify(body) ==
  IF IsSlashCommand(body) THEN Classified(SlashCommandVariant)
  ELSE IF VariantsOf(body) = {} THEN ClassificationFailure("UnknownPayloadType")
  ELSE LET v == CHOOSE w \in VariantsOf(body) : TRUE
       IN  IF RequiredPresent(v, body) THEN Classified(v)
           ELSE ClassificationFailure("MalformedPayload")

\* ---- the handler table
Modes == {"ack", "lazy"}
RegKeys == {SlashCommandVariant, "message"}
NoKey == "none"
HandlerOutcomes == {"ok", "throws"}

NoRetry == [isRetry |-> FALSE, retryNum |-> 0, retryReason |-> "none"]
NoBody == [type |-> Undefined, command |-> Undefined, event |-> Undefined]
NoClassification == [ok |-> FALSE, variant |-> "none", error |-> "none"]
NoDispatch ==
  [defined |-> FALSE, body |-> NoBody, retry |-> NoRetry,
   result |-> NoClassification, escaped |-> FALSE]
NoAck == [final |-> FALSE, status |-> "none", by |-> 0, lazyStarted |-> 0]
NoPrev == [defined |-> FALSE, body |-> NoBody, ids |-> <<>>]

DispatchStart ==
  /\ registry = <<>>
  /\ dpc = "idle"
  /\ request = NoDispatch
  /\ ackDecision = NoAck
  /\ lazyQueue = <<>>
  /\ dlog = <<>>
  /\ prev = NoPrev

\* the key handlers are looked up by: the variant, or the inner event type
PayloadKey(body, result) ==
  IF ~result.ok THEN NoKey
  ELSE IF result.variant = "event_callback" THEN body.event
  ELSE result.variant

MatchingIds(key, mode) ==
  {i \in 1..Len(registry) : registry[i].key = key /\ registry[i].mode = mode}

RECURSIVE Ascending(_)
Ascending(S) ==
  IF S = {} THEN <<>>
  ELSE LET m == CHOOSE x \in S : \A y \in S : x <= y
       IN  <<m>> \o Ascending(S \ {m})

\* variant of Scheduled: latest registration first
Mut_Scheduled(key) ==
  LET asc == Ascending(MatchingIds(key, "lazy"))
  IN  [i \in 1..Len(asc) |-> asc[Len(asc) + 1 - i]]

\* the lazy entries matching the key, in registration order
Scheduled(key) ==
  Ascending(MatchingIds(key, "lazy"))

\* variant of Rejected: a classification failure is dispatched all the same
Mut_Rejected(result) ==
  FALSE

\* classification errors abort the request before ack
Rejected(result) ==
  ~result.ok

\* variant of LazyMayStart: lazy work is started along with the ack handler
Mut_LazyMayStart ==
  dpc \in {"ack", "lazy"}

\* lazy entries are run once the ack has been returned
LazyMayStart ==
  dpc = "lazy"

\* variant of AfterLazy: a failure abandons the handlers still to run
Mut_AfterLazy(outcome, queue) ==
  IF outcome = "throws" THEN <<>> ELSE Tail(queue)

\* the failure of a handler is caught at the call site; the next one is due
AfterLazy(outcome, queue) ==
  Tail(queue)

\* variant of Exposed: handlers are not shown the retry context
Mut_Exposed(retry) ==
  NoRetry

\* the RetryContext handed to a handler
Exposed(retry) ==
  retry

LazyRuns == SelectSeq(dlog, LAMBDA r : r.mode = "lazy")

Run(i, outcome) ==
  [id |-> i, mode |-> registry[i].mode, owner |-> registry[i].owner,
   retry |-> Exposed(request.retry), outcome |-> outcome, ack |-> ackDecision]

\* register(key, subtypeFilter?, handler, mode): the table is appended to
Register(key, mode, owner) ==
  /\ dpc = "idle"
  /\ Len(registry) < MaxEntries
  /\ mode = "ack" => MatchingIds(key, "ack") = {}
  /\ owner = "assistant" => (key = "message" /\ mode = "lazy")
  /\ registry' = Append(registry, [key |-> key, mode |-> mode, owner |-> owner])
  /\ UNCHANGED <<dpc, request, ackDecision, lazyQueue, dlog, prev,
                 assistantVars, storeVars, utilVars>>

\* dispatch(payload, retryContext), up to classification and match
Begin(body, retry) ==
  LET result == classify(body)
  IN  /\ request' = [defined |-> TRUE, body |-> body, retry |-> retry,
                     result |-> result, escaped |-> FALSE]
      /\ dlog' = <<>>
      /\ IF Rejected(result)
           THEN /\ ackDecision' = [NoAck EXCEPT !.final = TRUE, !.status = "rejected"]
                /\ lazyQueue' = <<>>
                /\ dpc' = "done"
           ELSE /\ ackDecision' = NoAck
                /\ lazyQueue' = Scheduled(PayloadKey(body, result))
                /\ dpc' = "ack"
      /\ UNCHANGED <<registry, assistantVars, storeVars, utilVars>>

\* a first delivery arrives
Receive(body) ==
  /\ dpc = "idle"
  /\ prev' = NoPrev
  /\ Begin(body, NoRetry)

\* the platform delivers the event of the finished request again
Redeliver ==
  /\ dpc = "done"
  /\ request.retry.retryNum < MaxRetryNum
  /\ prev' = [defined |-> TRUE, body |-> request.body,
              ids |-> [i \in 1..Len(dlog) |-> dlog[i].id]]
  /\ Begin(request.body,
           [isRetry |-> TRUE, retryNum |-> request.retry.retryNum + 1,
            retryReason |-> "http_timeout"])

\* the ack-producing entry runs, or the default ack is given
ProduceAck ==
  /\ dpc = "ack"
  /\ LET ids == MatchingIds(PayloadKey(request.body, request.result), "ack")
         started == Len(LazyRuns)
     IN  IF ids = {}
           THEN /\ ackDecision' = [final |-> TRUE, status |-> "ok", by |-> 0,
                                   lazyStarted |-> started]
                /\ dlog' = dlog
           ELSE \E outcome \in HandlerOutcomes :
                  LET i == CHOOSE x \in ids : TRUE
                  IN  /\ dlog' = Append(dlog, Run(i, outcome))
                      /\ ackDecision' =
                           IF outcome = "ok"
                             THEN [final |-> TRUE, status |-> "ok", by |-> i,
                                   lazyStarted |-> started]
                             ELSE [final |-> TRUE, status |-> "fallback", by |-> 0,
                                   lazyStarted |-> started]
  /\ dpc' = IF lazyQueue = <<>> THEN "done" ELSE "lazy"
  /\ UNCHANGED <<registry, request, lazyQueue, prev,
                 assistantVars, storeVars, utilVars>>

\* the next lazy entry runs
RunLazy ==
  /\ LazyMayStart
  /\ lazyQueue # <<>>
  /\ \E outcome \in HandlerOutcomes :
       /\ dlog' = Append(dlog, Run(Head(lazyQueue), outcome))
       /\ lazyQueue' = AfterLazy(outcome, lazyQueue)
       /\ dpc' = IF dpc = "lazy" /\ AfterLazy(outcome, lazyQueue) = <<>>
                   THEN "done" ELSE dpc
  /\ UNCHANGED <<registry, request, ackDecision, prev,
                 assistantVars, storeVars, utilVars>>

\* the request finishes; what was request-scoped is dropped
Finish ==
  /\ dpc = "done"
  /\ dpc' = "idle"
  /\ request' = NoDispatch
  /\ ackDecision' = NoAck
  /\ lazyQueue' = <<>>
  /\ dlog' = <<>>
  /\ prev' = NoPrev
  /\ UNCHANGED <<registry, assistantVars, storeVars, utilVars>>

\* ============================================================ specifications
Init == AssistantInit /\ StoreStart /\ UtilStart /\ DispatchStart

Next ==
  \/ threadStarted
  \/ threadContextChanged
  \/ userMessage
  \/ botMessage
  \/ DeliverThreadStarted
  \/ DeliverThreadContextChanged
  \/ DeliverMessage

Spec == Init /\ [][Next]_vars

\* the reference store used by one caller at a time; the Assistant is the one
\* constructed without options and is left alone
StoreInit ==
  /\ AssistantInit
  /\ \A s \in Slots : options[s] = NoHandler
  /\ StoreStart
  /\ UtilStart
  /\ DispatchStart

StoreNext ==
  \/ PostMessage
  \/ SaveLookup("p1")
  \/ SaveUpdate("p1")
  \/ Find("p1")

StoreSpec == StoreInit /\ [][StoreNext]_vars

\* the reference store used by one caller while other writers update the anchor
OobNext ==
  \/ (Len(msgs) < MaxOobThreadLen /\ PostMessage)
  \/ SaveLookup("p1")
  \/ SaveUpdate("p1")
  \/ Find("p1")
  \/ EditAnchor
  \/ WriteAnchorMetadata

OobSpec == StoreInit /\ [][OobNext]_vars

\* the reference store with the save calls of two requests in flight at once
\* (no lock is taken: the lookup and the update of a save are separate steps)
ConcNext ==
  \/ (Len(msgs) < MaxConcThreadLen /\ PostMessage)
  \/ \E p \in Callers : SaveLookup(p)
  \/ \E p \in Callers : SaveUpdate(p)

ConcSpec == StoreInit /\ [][ConcNext]_vars

\* the Assistant constructed without options, left alone
AssistantQuiet ==
  /\ AssistantInit
  /\ \A s \in Slots : options[s] = NoHandler

\* the two event predicates applied to an event
UtilInit ==
  /\ AssistantQuiet
  /\ StoreStart
  /\ DispatchStart
  /\ event \in Events
  /\ verdict = [posted |-> NotApplied, functionExecuted |-> NotApplied]

UtilNext ==
  \/ CallIsPostedMessageEvent
  \/ CallIsFunctionExecutedEvent

UtilSpec == UtilInit /\ [][UtilNext]_vars

\* requests classified and dispatched to the registered handlers
DispatchInit ==
  /\ AssistantQuiet
  /\ StoreStart
  /\ UtilStart
  /\ DispatchStart

DispatchNext ==
  \/ \E key \in RegKeys, mode \in Modes, owner \in {"app", "assistant"} :
       Register(key, mode, owner)
  \/ \E body \in Bodies : Receive(body)
  \/ Redeliver
  \/ ProduceAck
  \/ RunLazy
  \/ Finish

DispatchSpec == DispatchInit /\ [][DispatchNext]_vars

\* ==================================================================== claims
\* the request of the most recent delivery, and what a slot did with it
Res(s) == last.res[s]
PlainMessage ==
  last.kind = "message" /\ last.req.payloadDefined /\ last.req.subtype = Undefined

\* the requests on which a slot's handler is due whatever the reading of its guard
Due(s) ==
  CASE s = "threadStarted"        -> last.req.body.eventType = "assistant_thread_started"
    [] s = "threadContextChanged" -> last.req.body.eventType = "assistant_thread_context_changed"
    [] s = "userMessage"          -> PlainMessage
    [] s = "botMessage"           -> PlainMessage /\ last.req.user = last.req.botUserId

\* C1: for a message event delivered with both a UserMessage and a BotMessage
\* handler registered, at most one of the two handlers is invoked; an event
\* without subtype whose user is the app's own bot user id invokes the
\* BotMessage handler and not the UserMessage handler.
C1_OneMessageHandlerPerEvent ==
  (/\ last.kind = "message"
   /\ current("userMessage") # NoHandler
   /\ current("botMessage") # NoHandler)
  => /\ ~(Res("userMessage").invoked # <<>> /\ Res("botMessage").invoked # <<>>)
     /\ (PlainMessage /\ last.req.user = last.req.botUserId)
          => /\ Res("botMessage").invoked = <<current("botMessage")>>
             /\ Res("userMessage").invoked = <<>>

\* C2: a message event without subtype whose user differs from the app's own
\* bot user id invokes the registered UserMessage handler exactly once and
\* never the registered BotMessage handler.
C2_UserMessageOnly ==
  (/\ PlainMessage
   /\ last.req.user # last.req.botUserId
   /\ current("userMessage") # NoHandler)
  => /\ Res("userMessage").invoked = <<current("userMessage")>>
     /\ Res("botMessage").invoked = <<>>

C2_Witness ==
  /\ PlainMessage
  /\ last.req.user # last.req.botUserId
  /\ current("userMessage") # NoHandler
  /\ current("botMessage") # NoHandler
  /\ Res("userMessage").invoked = <<current("userMessage")>>

\* C3: each of the four slots completes normally for every event: whatever the
\* handler, the default behaviour or the guard evaluation throws is caught and
\* logged inside the slot and never reaches the caller, for a handler of the
\* constructor options and for one of a registration method alike.
C3_SlotsNeverReject ==
  \A s \in Slots : Res(s).ran => ~Res(s).rejected

\* C4: after any sequence of registrations on one slot (a constructor option,
\* then any number of calls of its registration method) an event for that slot
\* invokes only the handler registered last, and the other slots keep theirs.
C4_LastRegistrationWins ==
  \A s \in Slots :
    Res(s).ran =>
      /\ \A i \in DOMAIN Res(s).invoked : Res(s).invoked[i] = current(s)
      /\ (Due(s) /\ current(s) # NoHandler) => Res(s).invoked = <<current(s)>>

C4_Witness ==
  /\ options.userMessage # NoHandler
  /\ Len(registered["userMessage"]) = 3
  /\ Len(registered["botMessage"]) = 1
  /\ PlainMessage /\ last.req.user = last.req.botUserId
  /\ Res("userMessage").invoked = <<current("userMessage")>>
  /\ Res("botMessage").invoked = <<OptionHandler>>

\* C5 as stated: on an assistant_thread_started event the coordinator sends the
\* greeting and sets the suggested prompts if and only if no ThreadStarted
\* handler is registered; with a handler registered it invokes that handler
\* and itself sends no greeting and sets no prompts.
C5_DefaultIffNoHandler ==
  (last.kind = "threadStarted" /\ Due("threadStarted")) =>
    LET r == Res("threadStarted") IN
    /\ (r.say # NotCalled /\ r.prompts # NotCalled) <=> (current("threadStarted") = NoHandler)
    /\ current("threadStarted") # NoHandler
         => r.invoked = <<current("threadStarted")>>

\* C5 amended: the greeting is sent if and only if no ThreadStarted handler is
\* registered, and the prompts are set if and only if, moreover, sending the
\* greeting succeeded; with a handler registered the coordinator invokes that
\* handler and itself sends no greeting and sets no prompts.
C5_DefaultIffNoHandlerAndGreeted ==
  (last.kind = "threadStarted" /\ Due("threadStarted")) =>
    LET r == Res("threadStarted") IN
    /\ (r.say # NotCalled) <=> (current("threadStarted") = NoHandler)
    /\ (r.prompts # NotCalled) <=> (current("threadStarted") = NoHandler /\ r.say = "ok")
    /\ current("threadStarted") = NoHandler => r.invoked = <<>>
    /\ current("threadStarted") # NoHandler
         => r.invoked = <<current("threadStarted")>>

C5_Witness ==
  /\ last.kind = "threadStarted" /\ Due("threadStarted")
  /\ current("threadStarted") = NoHandler
  /\ Res("threadStarted").say = "throwError"
  /\ Res("threadStarted").prompts = NotCalled

\* C6: on an assistant_thread_context_changed event with no
\* ThreadContextChanged handler registered the coordinator saves a context
\* whose enterprise_id, team_id and channel_id are those of the event's
\* assistant_thread.context; with a handler registered it invokes that
\* handler and itself saves nothing.
C6_DefaultSavesContextVerbatim ==
  (last.kind = "threadContextChanged" /\ Due("threadContextChanged")) =>
    LET r == Res("threadContextChanged") IN
    /\ current("threadContextChanged") = NoHandler
         => /\ Len(r.saved) = 1
            /\ r.saved[1].enterprise_id = last.req.threadContext.enterprise_id
            /\ r.saved[1].team_id = last.req.threadContext.team_id
            /\ r.saved[1].channel_id = last.req.threadContext.channel_id
            /\ r.invoked = <<>>
    /\ current("threadContextChanged") # NoHandler
         => /\ r.invoked = <<current("threadContextChanged")>>
            /\ r.saved = <<>>

C6_Witness ==
  /\ last.kind = "threadContextChanged" /\ Due("threadContextChanged")
  /\ current("threadContextChanged") = NoHandler
  /\ last.req.threadContext.enterprise_id = "E1"
  /\ Res("threadContextChanged").saved = <<last.req.threadContext>>

\* a call of the store that has ended
Ended(p) == ret[p].op \in {"save", "find"}

\* C7: when the lookup reaches the thread's anchor message, a find that follows
\* a completed save returns the context of that save, and after several
\* completed saves the context of the most recent one.
C7_FindReturnsLastSaved ==
  \A p \in Callers :
    (ret[p].op = "find" /\ ret[p].found /\ ret[p].seen.defined)
      => ret[p].value = Present(ret[p].seen.value)

C7_Witness ==
  \E p \in Callers :
    /\ ret[p].op = "find" /\ ret[p].found
    /\ ret[p].seen.count = 2
    /\ ret[p].value = Present(ret[p].seen.value)

\* C8: when the fetched replies hold no message written by this bot, find
\* returns absent, and save issues no update, leaves the thread as it is and
\* does not raise.
C8_NoBotMessageNoAnchor ==
  \A p \in Callers :
    (Ended(p) /\ ret[p].fetch # "throws" /\ ~ret[p].botAuthored)
      => /\ ret[p].op = "find" => ret[p].value = Absent
         /\ ret[p].op = "save" => /\ ~ret[p].updateIssued
                                  /\ ~ret[p].remoteChanged
                                  /\ ~ret[p].raised

C8_Witness ==
  \E p \in Callers :
    /\ ret[p].op = "save" /\ ret[p].fetch = "ok" /\ ~ret[p].botAuthored
    /\ Len(msgs) >= 2
    /\ ~ret[p].updateIssued

\* C9: when the call that fetches the replies fails, the failure is caught
\* inside the store: find returns absent, save issues no update, and neither
\* raises.
C9_FetchFailureIsSwallowed ==
  \A p \in Callers :
    (Ended(p) /\ ret[p].fetch = "throws")
      => /\ ~ret[p].raised
         /\ ret[p].op = "find" => ret[p].value = Absent
         /\ ret[p].op = "save" => ~ret[p].updateIssued /\ ~ret[p].remoteChanged

C9_Witness ==
  \E p \in Callers :
    /\ ret[p].op = "save" /\ ret[p].fetch = "throws"
    /\ \E i \in 1..Len(msgs) : IsAssistantReply(msgs[i]) /\ i <= RepliesLimit
    /\ ~ret[p].updateIssued

\* C10: no failure of either external call of the store (the replies fetch, the
\* message update of save) leaves the store: save and find end without raising.
C10_StoreNeverRaises ==
  \A p \in Callers : Ended(p) => ~ret[p].raised

\* the anchor of the thread as a lookup that succeeds finds it now
Anchor == findFirstAssistantReply(RepliesResponse("ok", msgs))

\* both callers' save calls have ended with their update applied
BothSaved ==
  \A p \in Callers :
    pc[p] = "idle" /\ ret[p].op = "save" /\ ret[p].updateIssued /\ ~ret[p].raised

\* C11: two save calls on the same key run with any interleaving of their
\* lookup and update steps; once both have ended, the context on the anchor
\* message is that of exactly one of them, the one whose update was applied
\* last: never a mixture of the two, never the value from before both.
C11_LastWriterWins ==
  BothSaved =>
    /\ Anchor.found
    /\ lastSaved.by \in Callers
    /\ Anchor.metadata = Metadata("assistant_thread_context", arg[lastSaved.by])

C11_Witness ==
  /\ BothSaved
  /\ arg["p1"] # arg["p2"]
  /\ ~reply["p1"].metadata.defined /\ ~reply["p2"].metadata.defined
  /\ lastSaved.by = "p1"
  /\ Anchor.metadata.event_payload = arg["p1"]

\* C12: isPostedMessageEvent(event) returns true exactly when event.subtype is
\* absent, "bot_message", "file_share" or "thread_broadcast"; for every other
\* subtype, subtypes outside the known set included, it returns false.
C12_PostedMessageSubtypes ==
  verdict.posted.applied =>
    (verdict.posted.value <=>
       event.subtype \in {Undefined, "bot_message", "file_share", "thread_broadcast"})

C12_Witness ==
  /\ verdict.posted.applied
  /\ event.subtype = "zz_unknown"
  /\ ~verdict.posted.value

\* C13: isFunctionExecutedEvent(event) returns true if and only if event.type
\* is "function_executed", whatever else the event carries.
C13_FunctionExecutedByType ==
  verdict.functionExecuted.applied =>
    (verdict.functionExecuted.value <=> event.type = "function_executed")

C13_Witness ==
  /\ verdict.functionExecuted.applied
  /\ event.type = "function_executed"
  /\ event.subtype = "bot_message"
  /\ verdict.functionExecuted.value

Completed == dpc = "done"
RunIds == [i \in 1..Len(dlog) |-> dlog[i].id]
LazyRunIds == [i \in 1..Len(LazyRuns) |-> LazyRuns[i].id]
LazyMatches ==
  {i \in 1..Len(registry) :
     /\ registry[i].mode = "lazy"
     /\ registry[i].key = PayloadKey(request.body, request.result)}

\* C14: a body is classified as a slash command if and only if it has a command
\* field and no type field; a body that has a type field is classified by the
\* value of type (as that variant, or as a failure) even when it also has a
\* command field.
C14_SlashIffCommandAndNoType ==
  request.defined =>
    /\ (request.result.ok /\ request.result.variant = SlashCommandVariant)
         <=> (request.body.command # Undefined /\ request.body.type = Undefined)
    /\ request.body.type # Undefined =>
         IF request.result.ok
           THEN request.result.variant = request.body.type
           ELSE request.result.error \in {"UnknownPayloadType", "MalformedPayload"}

C14_Witness ==
  /\ request.defined
  /\ request.body.command = "/todo"
  /\ request.body.type = "block_actions"
  /\ request.result = Classified("block_actions")

\* C15: no body has two variants, a classified body has exactly the variant it
\* was given, and a body whose type is outside the closed vocabulary is rejected
\* as UnknownPayloadType with no handler, ack-mode or lazy, invoked for it.
C15_OneVariantOrRejected ==
  request.defined =>
    /\ Cardinality(VariantsOf(request.body)) <= 1
    /\ request.result.ok => VariantsOf(request.body) = {request.result.variant}
    /\ request.body.type \notin
         {"block_actions", "block_suggestion", "message_action", "shortcut",
          "event_callback", "view_submission", "view_closed", "app_rate_limited",
          Undefined} =>
         /\ request.result = ClassificationFailure("UnknownPayloadType")
         /\ Completed
         /\ ackDecision.status = "rejected"
         /\ dlog = <<>>
         /\ lazyQueue = <<>>

C15_Witness ==
  /\ request.defined
  /\ request.body.type = "zz_other"
  /\ request.body.event = "message"
  /\ \E i \in 1..Len(registry) : registry[i].key = "message" /\ registry[i].mode = "ack"
  /\ \E i \in 1..Len(registry) : registry[i].key = "message" /\ registry[i].mode = "lazy"
  /\ ackDecision.status = "rejected"
  /\ dlog = <<>>

\* C16: every lazy handler of a request started with the ack decision of that
\* request already final, and the ack decision was made final with no lazy
\* handler started.
C16_LazyAfterAck ==
  /\ \A i \in 1..Len(dlog) : dlog[i].mode = "lazy" => dlog[i].ack.final
  /\ ackDecision.final => ackDecision.lazyStarted = 0
  /\ (dpc = "lazy" \/ LazyRuns # <<>>) => ackDecision.final

C16_Witness ==
  /\ Completed
  /\ Len(dlog) = 3
  /\ dlog[1].mode = "ack"
  /\ dlog[2].mode = "lazy" /\ dlog[2].ack.final
  /\ ackDecision.by = dlog[1].id

\* C17: the lazy handlers run for a request are run once each, in the order of
\* their registration, and once the request is completed they are all the lazy
\* handlers registered for its key.
C17_LazyInRegistrationOrder ==
  /\ \A i, j \in 1..Len(LazyRunIds) : i < j => LazyRunIds[i] < LazyRunIds[j]
  /\ \A i \in 1..Len(LazyRunIds) : LazyRunIds[i] \in LazyMatches
  /\ (Completed /\ request.result.ok) =>
       /\ {LazyRunIds[i] : i \in 1..Len(LazyRunIds)} = LazyMatches
       /\ Len(LazyRunIds) = Cardinality(LazyMatches)

C17_Witness ==
  /\ Completed
  /\ Len(registry) = 3
  /\ registry[2].key = SlashCommandVariant
  /\ LazyRunIds = <<1, 3>>

\* C18: when a lazy handler has raised, the ack decision is the one that stood
\* when the handler started, the lazy handlers registered after it for the same
\* key are run all the same, and the error does not leave the dispatcher.
C18_LazyFailureIsIsolated ==
  (\E i \in 1..Len(LazyRuns) : LazyRuns[i].outcome = "throws") =>
    /\ \A i \in 1..Len(LazyRuns) : LazyRuns[i].ack = ackDecision
    /\ ~request.escaped
    /\ ~Completed => lazyQueue # <<>>
    /\ Completed => \A m \in LazyMatches : \E i \in 1..Len(LazyRuns) : LazyRuns[i].id = m

C18_Witness ==
  /\ Completed
  /\ Len(LazyRuns) = 2
  /\ LazyRuns[1].outcome = "throws"
  /\ LazyRuns[2].outcome = "ok"
  /\ ackDecision.status = "ok" /\ ackDecision.by # 0

\* C19: a redelivery (RetryContext with isRetry true) of the event just
\* dispatched runs the handlers the first delivery ran, the Assistant's among
\* them, and every one of them is handed the RetryContext of the redelivery.
C19_RedeliveryRunsHandlersAgain ==
  (Completed /\ request.retry.isRetry) =>
    /\ prev.defined
    /\ prev.body = request.body
    /\ RunIds = prev.ids
    /\ \A i \in 1..Len(dlog) : dlog[i].retry = request.retry

C19_Witness ==
  /\ Completed
  /\ request.retry.isRetry
  /\ Len(dlog) >= 2
  /\ \E i \in 1..Len(dlog) : dlog[i].owner = "assistant" /\ dlog[i].retry.isRetry

C21_BotMessageBySubtypeAndAuthor ==
  (last.kind = "message" /\ last.req.payloadDefined) =>
    /\ Res("botMessage").ran
    /\ (Res("botMessage").invoked # <<>>)
         <=> (/\ last.req.subtype = Undefined
              /\ last.req.user = last.req.botUserId
              /\ current("botMessage") # NoHandler)
    /\ Res("botMessage").invoked # <<>> =>
         Res("botMessage").invoked = <<current("botMessage")>>
    /\ Res("botMessage").invoked = <<>> =>
         Res("botMessage") = [NotRun EXCEPT !.ran = TRUE]

C21_Witness ==
  /\ last.kind = "message" /\ last.req.payloadDefined
  /\ last.req.subtype = "bot_message"
  /\ last.req.user = last.req.botUserId
  /\ current("botMessage") # NoHandler
  /\ Res("botMessage") = [NotRun EXCEPT !.ran = TRUE]

\* the messages among the first 4 of the thread (the limit of the fetch) that
\* have no subtype and were written by this bot
WindowMatches ==
  {i \in 1..Min(RepliesLimit, Len(msgs)) :
     msgs[i].subtype = Undefined /\ msgs[i].user = thisBotUserId}

\* caller p makes the lookup of a save or of a find, and the fetch answers
LooksUp(p) ==
  /\ pc[p] = "idle"
  /\ msgs' = msgs
  /\ ret'[p].fetch = "ok"
  /\ (ret'[p] # ret[p] \/ reply'[p] # reply[p])

\* what the lookup of caller p must make of the thread it read
AnchorTaken(p) ==
  IF WindowMatches = {}
    THEN /\ ~reply'[p].found
         /\ pc'[p] = "idle"
         /\ ret'[p].op = "find" => ret'[p].value = Absent
         /\ ret'[p].op = "save" => (~ret'[p].updateIssued /\ ~ret'[p].remoteChanged)
    ELSE /\ reply'[p].found
         /\ reply'[p].ts \in {msgs[i].ts : i \in WindowMatches}
         /\ \A i \in WindowMatches : reply'[p].ts <= msgs[i].ts
         /\ ret'[p].op = "none" => pc'[p] = "save_update"

\* only the first match of the window ever carries metadata
OnlyAnchorWritten ==
  \A i \in 1..Len(msgs) :
    msgs[i].metadata.defined =>
      (i \in WindowMatches /\ \A j \in WindowMatches : i <= j)

\* C22: a lookup whose fetch answered takes as anchor the first message, among
\* the first 4 of the thread, that has no subtype and whose user is this bot;
\* save updates that message and no other; when no such message is among the
\* first 4 (the bot's earliest one lying further down the thread included),
\* find returns absent and save calls no update and changes nothing.
C22_AnchorIsFirstMatchInWindow ==
  /\ []OnlyAnchorWritten
  /\ [][\A p \in Callers : LooksUp(p) => AnchorTaken(p)]_vars

C22_Witness ==
  /\ Len(msgs) = 5
  /\ WindowMatches = {}
  /\ IsAssistantReply(msgs[5])
  /\ ret["p1"].op = "find" /\ ret["p1"].fetch = "ok"
  /\ ret["p1"].value = Absent /\ ~reply["p1"].found

\* the chat.update of caller p's save is applied
SaveApplies(p) ==
  pc[p] = "save_update" /\ pc'[p] = "idle" /\ ~ret'[p].raised

\* C23: the update of a save changes the anchor (the message of the reply's ts,
\* the first match of the window) and no other message, and leaves on it the
\* metadata {event_type: "assistant_thread_context", event_payload: the new
\* context}, whatever metadata the anchor or the looked-up reply carried.
C23_UpdateOverridesMetadata ==
  [][\A p \in Callers :
       SaveApplies(p) =>
         /\ Len(msgs') = Len(msgs)
         /\ \E i \in AnchorIndexes : msgs[i].ts = reply[p].ts
         /\ \A i \in 1..Len(msgs) :
              IF i \in AnchorIndexes
                THEN msgs'[i].metadata = Metadata("assistant_thread_context", arg[p])
                ELSE msgs'[i] = msgs[i]]_vars

C23_Witness ==
  /\ pc["p1"] = "idle"
  /\ ret["p1"].op = "save" /\ ret["p1"].updateIssued /\ ~ret["p1"].raised
  /\ reply["p1"].metadata.defined
  /\ reply["p1"].metadata.event_type = "task_created"
  /\ reply["p1"].metadata.event_payload # arg["p1"]
  /\ \E i \in AnchorIndexes :
       msgs[i].metadata = Metadata("assistant_thread_context", arg["p1"])

\* what the anchor carries on the remote side
RemotePayload ==
  IF \E i \in AnchorIndexes : msgs[i].metadata.defined
    THEN Present(msgs[CHOOSE i \in AnchorIndexes : TRUE].metadata.event_payload)
    ELSE Absent

\* C24: every lookup, of a save or of a find, reads the anchor as the thread
\* holds it at that moment, and a find returns the payload the anchor then
\* carries, changed outside the store or not, whatever was last written
\* through save.
C24_NoCachedAnchor ==
  [][\A p \in Callers :
       LooksUp(p) =>
         /\ ret'[p].op = "find" => ret'[p].value = RemotePayload
         /\ reply'[p].found =>
              \E i \in AnchorIndexes :
                /\ reply'[p].ts = msgs[i].ts
                /\ reply'[p].text = msgs[i].text
                /\ reply'[p].blocks = msgs[i].blocks
                /\ reply'[p].metadata = msgs[i].metadata]_vars

C24_Witness ==
  /\ ret["p1"].op = "find" /\ ret["p1"].fetch = "ok"
  /\ lastSaved.defined
  /\ ret["p1"].value.defined
  /\ ret["p1"].value.value # lastSaved.value
  /\ ret["p1"].value = RemotePayload

\* C25: the update of a save leaves the text and the blocks of every message
\* of the thread, the anchor included, as they were immediately before the
\* update was applied, also when the anchor was edited after the lookup.
C25_SaveChangesOnlyMetadata ==
  [][\A p \in Callers :
       SaveApplies(p) =>
         \A i \in 1..Len(msgs) :
           /\ msgs'[i].text = msgs[i].text
           /\ msgs'[i].blocks = msgs[i].blocks]_vars

\* C26: a find whose anchor carries metadata of an event type other than
\* "assistant_thread_context" returns absent, not the payload of that metadata.
C26_FindOnlyStoreContexts ==
  \A p \in Callers :
    (/\ ret[p].op = "find"
     /\ reply[p].found
     /\ reply[p].metadata.defined
     /\ reply[p].metadata.event_type # "assistant_thread_context")
    => ret[p].value = Absent

\* C27: the default ThreadStarted behaviour calls say first and
\* setSuggestedPrompts after it, and calls setSuggestedPrompts only when say
\* succeeded; when say fails no prompts are set, the failure is logged and the
\* slot completes normally.
C27_GreetingBeforePrompts ==
  (/\ last.kind = "threadStarted" /\ Due("threadStarted")
   /\ current("threadStarted") = NoHandler)
  => LET r == Res("threadStarted") IN
     /\ r.ran
     /\ r.calls # <<>> /\ r.calls[1] = "say"
     /\ r.say = "ok" => r.calls = <<"say", "setSuggestedPrompts">>
     /\ r.say # "ok" =>
          /\ r.calls = <<"say">>
          /\ r.prompts = NotCalled
          /\ r.logged
          /\ ~r.rejected

C27_Witness ==
  /\ last.kind = "threadStarted" /\ Due("threadStarted")
  /\ current("threadStarted") = NoHandler
  /\ Res("threadStarted").calls = <<"say">>
  /\ Res("threadStarted").say = "throwError"
  /\ Res("threadStarted").logged /\ ~Res("threadStarted").rejected

\* C28: when the body of the request is not recognized as an assistant-thread
\* event, the ThreadStarted and ThreadContextChanged slots invoke no handler,
\* send no greeting, set no prompts, save no context, log nothing and complete
\* normally, with the closure of the constructor and with one of a
\* registration method alike.
C28_ThreadSlotsIgnoreOtherBodies ==
  \A s \in {"threadStarted", "threadContextChanged"} :
    (Res(s).ran /\ ~isAssitantThreadEvent(last.req.body)) =>
      Res(s) = [NotRun EXCEPT !.ran = TRUE]

C28_Witness ==
  /\ last.kind = "threadContextChanged"
  /\ last.req.body.eventType = "app_mention"
  /\ threadContextChangedHandler.kind = "reg"
  /\ current("threadContextChanged") # NoHandler
  /\ Res("threadContextChanged") = [NotRun EXCEPT !.ran = TRUE]

====
